---- MODULE Spec2Model ----
(***************************************************************************)
(* Model of prospect_core.core.graph: construction of a Graph, i.e. the    *)
(* pydantic validation pipeline (field validators of nodes and edges, then *)
(* the model validators in definition order).                              *)
(*                                                                         *)
(* A node is a record [id, name, pull_from_downstream_agg_key,             *)
(* pull_from_upstream_agg_key]; an edge is a record [id, name,             *)
(* upstream_node_id, downstream_node_id, upstream_method_key,              *)
(* downstream_method_key].  The registries pull_methods and agg_methods    *)
(* are modelled by their key sets (only the keys are ever looked at).      *)
(***************************************************************************)
EXTENDS Integers, Sequences, FiniteSets, TLC

VARIABLES
    nodes,                \* Graph.nodes as supplied
    edges,                \* Graph.edges as supplied
    pull_methods,         \* keys of Graph.pull_methods
    agg_methods,          \* keys of Graph.agg_methods
    global_variables,     \* Graph.global_variables as supplied
    pc,                   \* position of the construction in the pipeline
    errors,               \* violations carried by the failure (in order)
    warnings,             \* warnings emitted so far (each a list of (id, name))
    depth,                \* call-stack frames left for the traversal, -1 before it ran
    upstream_node_ids,    \* cached value of Graph.upstream_node_ids
    downstream_node_ids,  \* cached value of Graph.downstream_node_ids
    cached,               \* the Graph's other cached properties, by name
    previous,             \* outcome of the previous attempt on the same input
    edge_fields,          \* the data an Edge is constructed from
    work_unit,            \* the data a WorkUnit is constructed from
    risk_weighted_value   \* what WorkUnit.risk_weighted_value returned last

vars == <<nodes, edges, pull_methods, agg_methods, global_variables, pc, errors, warnings,
          depth, upstream_node_ids, downstream_node_ids, cached, previous,
          edge_fields, work_unit, risk_weighted_value>>

----------------------------------------------------------------------------
(* Bounds of the model *)

MaxNodes == 4        \* at most MaxNodes nodes in a structural input
MaxEdges == 3        \* at most MaxEdges edges in a structural input
MaxDepth == 4        \* the traversal finds 1 .. MaxDepth free stack frames

----------------------------------------------------------------------------
(* Generic helpers *)

Range(s) == { s[i] : i \in DOMAIN s }

Min(S) == CHOOSE x \in S : \A y \in S : x <= y

RECURSIVE sorted(_)
\* Python's sorted(set(...)) on integers: the ascending list of a finite set
sorted(S) == IF S = {} THEN << >> ELSE <<Min(S)>> \o sorted(S \ {Min(S)})

Reverse(s) == [ i \in 1..Len(s) |-> s[Len(s) + 1 - i] ]

\* (v.id, v.name)
IdName(v) == <<v.id, v.name>>

\* [f(v) for v in value if Test(v)]
Listing(value, Test(_), f(_)) ==
    LET sel == SelectSeq(value, Test) IN [ i \in 1..Len(sel) |-> f(sel[i]) ]

----------------------------------------------------------------------------
(* Outcomes of validators.  A validator either returns its input (NoError) *)
(* or raises a ValueError, modelled by a record carrying what its message  *)
(* lists.                                                                  *)

NoError == [kind |-> "none"]

\* {k: v for k, v in id_v_dict.items() if len(v) > 1}, id_v_dict built in list order
dups_ids(value) ==
    LET keys == { value[i].id : i \in DOMAIN value }
        id_v_dict == [ k \in keys |-> Listing(value, LAMBDA v : v.id = k, IdName) ]
    IN  [ k \in { x \in keys : Len(id_v_dict[x]) > 1 } |-> id_v_dict[k] ]

\* {k: v for k, v in name_v_dict.items() if len(v) > 1}
dups_names(value) ==
    LET keys == { value[i].name : i \in DOMAIN value }
        name_v_dict == [ k \in keys |-> Listing(value, LAMBDA v : v.name = k, IdName) ]
    IN  [ k \in { x \in keys : Len(name_v_dict[x]) > 1 } |-> name_v_dict[k] ]

\* as _validate_id_and_name_unique, without the branch for both dimensions
_validate_id_and_name_unique_two_branches(value) ==
    LET di == dups_ids(value)
        dn == dups_names(value)
    IN  IF DOMAIN di # {} /\ DOMAIN dn = {}
          THEN [kind |-> "Duplicated ids", dups_ids |-> di]
        ELSE IF DOMAIN dn # {} /\ DOMAIN di = {}
          THEN [kind |-> "Duplicated names", dups_names |-> dn]
        ELSE NoError

_validate_id_and_name_unique(value) ==
    LET di == dups_ids(value)
        dn == dups_names(value)
    IN  IF DOMAIN di # {} /\ DOMAIN dn = {}
          THEN [kind |-> "Duplicated ids", dups_ids |-> di]
        ELSE IF DOMAIN dn # {} /\ DOMAIN di = {}
          THEN [kind |-> "Duplicated names", dups_names |-> dn]
        ELSE IF DOMAIN dn # {} /\ DOMAIN di # {}
          THEN [kind |-> "Duplicated ids and names", dups_ids |-> di, dups_names |-> dn]
        ELSE NoError

RECURSIVE DupedEdgesLoop(_, _, _, _, _)
\* as DupedEdgesLoop, with the reverse direction looked up only for an edge that
\* is not a same-direction duplicate (elif)
DupedEdgesLoop_elif(es, i, seen_edges, duplicate_same_direction, bidirectional_edges) ==
    IF i > Len(es)
      THEN [duplicate_same_direction |-> duplicate_same_direction,
            bidirectional_edges |-> bidirectional_edges]
      ELSE LET edge == es[i]
               edge_tuple == <<edge.upstream_node_id, edge.downstream_node_id>>
               reverse_tuple == <<edge.downstream_node_id, edge.upstream_node_id>>
               dup == IF edge_tuple \in seen_edges
                        THEN Append(duplicate_same_direction, IdName(edge))
                        ELSE duplicate_same_direction
               seen == seen_edges \cup {edge_tuple}
               bid == IF edge_tuple \notin seen_edges /\ reverse_tuple \in seen
                        THEN Append(bidirectional_edges, IdName(edge))
                        ELSE bidirectional_edges
           IN  DupedEdgesLoop(es, i + 1, seen, dup, bid)

\* The for loop of _validate_no_duped_edges from edge number i on.  seen_edges is
\* kept as its key set: the lists it maps to are never read.
DupedEdgesLoop(es, i, seen_edges, duplicate_same_direction, bidirectional_edges) ==
    IF i > Len(es)
      THEN [duplicate_same_direction |-> duplicate_same_direction,
            bidirectional_edges |-> bidirectional_edges]
      ELSE LET edge == es[i]
               edge_tuple == <<edge.upstream_node_id, edge.downstream_node_id>>
               reverse_tuple == <<edge.downstream_node_id, edge.upstream_node_id>>
               dup == IF edge_tuple \in seen_edges
                        THEN Append(duplicate_same_direction, IdName(edge))
                        ELSE duplicate_same_direction
               seen == seen_edges \cup {edge_tuple}
               bid == IF reverse_tuple \in seen
                        THEN Append(bidirectional_edges, IdName(edge))
                        ELSE bidirectional_edges
           IN  DupedEdgesLoop(es, i + 1, seen, dup, bid)

_validate_no_duped_edges(es) ==
    LET r == DupedEdgesLoop(es, 1, {}, << >>, << >>)
    IN  IF r.duplicate_same_direction # << >> \/ r.bidirectional_edges # << >>
          THEN [kind |-> "Duplicate or bidirectional edges",
                duplicate_same_direction |-> r.duplicate_same_direction,
                bidirectional_edges |-> r.bidirectional_edges]
          ELSE NoError

\* The chain of AfterValidators of the field edges: the second runs only if the
\* first returned.
\* as EdgesFieldValidators, without the second validator of the field
EdgesFieldValidators_unique_only(es) ==
    _validate_id_and_name_unique(es)

EdgesFieldValidators(es) ==
    IF _validate_id_and_name_unique(es) # NoError
      THEN _validate_id_and_name_unique(es)
      ELSE _validate_no_duped_edges(es)

\* as FieldErrors, stopping at the first field that fails
FieldErrors_first_field(ns, es) ==
    IF _validate_id_and_name_unique(ns) # NoError
      THEN << [loc |-> "nodes", err |-> _validate_id_and_name_unique(ns)] >>
    ELSE IF EdgesFieldValidators(es) # NoError
      THEN << [loc |-> "edges", err |-> EdgesFieldValidators(es)] >>
    ELSE << >>

\* pydantic validates every field and collects one error per failing field
FieldErrors(ns, es) ==
    (IF _validate_id_and_name_unique(ns) # NoError
       THEN << [loc |-> "nodes", err |-> _validate_id_and_name_unique(ns)] >>
       ELSE << >>)
    \o
    (IF EdgesFieldValidators(es) # NoError
       THEN << [loc |-> "edges", err |-> EdgesFieldValidators(es)] >>
       ELSE << >>)

\* as _validate_pull_method_keys, raising only for a missing upstream key
_validate_pull_method_keys_upstream_only(es, keys) ==
    LET edges_with_missing_upstream_keys ==
            Listing(es, LAMBDA e : e.upstream_method_key \notin keys,
                    LAMBDA e : <<e.id, e.name, e.upstream_method_key>>)
        edges_with_missing_downstream_keys ==
            Listing(es, LAMBDA e : e.downstream_method_key \notin keys,
                    LAMBDA e : <<e.id, e.name, e.downstream_method_key>>)
    IN  IF edges_with_missing_upstream_keys # << >>
          THEN [kind |-> "missing pull method keys",
                upstream |-> edges_with_missing_upstream_keys,
                downstream |-> edges_with_missing_downstream_keys]
          ELSE NoError

_validate_pull_method_keys(es, keys) ==
    LET edges_with_missing_upstream_keys ==
            Listing(es, LAMBDA e : e.upstream_method_key \notin keys,
                    LAMBDA e : <<e.id, e.name, e.upstream_method_key>>)
        edges_with_missing_downstream_keys ==
            Listing(es, LAMBDA e : e.downstream_method_key \notin keys,
                    LAMBDA e : <<e.id, e.name, e.downstream_method_key>>)
    IN  IF edges_with_missing_upstream_keys # << >>
           \/ edges_with_missing_downstream_keys # << >>
          THEN [kind |-> "missing pull method keys",
                upstream |-> edges_with_missing_upstream_keys,
                downstream |-> edges_with_missing_downstream_keys]
          ELSE NoError

\* as _validate_agg_method_keys, with the upstream list filled from the
\* downstream keys
_validate_agg_method_keys_same_key(ns, keys) ==
    LET nodes_with_missing_downstream_keys ==
            Listing(ns, LAMBDA n : n.pull_from_downstream_agg_key \notin keys,
                    LAMBDA n : <<n.id, n.name, n.pull_from_downstream_agg_key>>)
        nodes_with_missing_upstream_keys ==
            Listing(ns, LAMBDA n : n.pull_from_downstream_agg_key \notin keys,
                    LAMBDA n : <<n.id, n.name, n.pull_from_upstream_agg_key>>)
    IN  IF nodes_with_missing_downstream_keys # << >>
           \/ nodes_with_missing_upstream_keys # << >>
          THEN [kind |-> "missing aggregation keys",
                downstream |-> nodes_with_missing_downstream_keys,
                upstream |-> nodes_with_missing_upstream_keys]
          ELSE NoError

_validate_agg_method_keys(ns, keys) ==
    LET nodes_with_missing_downstream_keys ==
            Listing(ns, LAMBDA n : n.pull_from_downstream_agg_key \notin keys,
                    LAMBDA n : <<n.id, n.name, n.pull_from_downstream_agg_key>>)
        nodes_with_missing_upstream_keys ==
            Listing(ns, LAMBDA n : n.pull_from_upstream_agg_key \notin keys,
                    LAMBDA n : <<n.id, n.name, n.pull_from_upstream_agg_key>>)
    IN  IF nodes_with_missing_downstream_keys # << >>
           \/ nodes_with_missing_upstream_keys # << >>
          THEN [kind |-> "missing aggregation keys",
                downstream |-> nodes_with_missing_downstream_keys,
                upstream |-> nodes_with_missing_upstream_keys]
          ELSE NoError

\* as _validate_edge_node_ids, with the second loop testing the upstream id again
_validate_edge_node_ids_upstream_twice(ns, es) ==
    LET node_ids == { ns[i].id : i \in DOMAIN ns }
        edges_with_invalid_upstream_node_ids ==
            Listing(es, LAMBDA e : e.upstream_node_id \notin node_ids,
                    LAMBDA e : <<e.id, e.name, e.upstream_node_id>>)
        edges_with_invalid_downstream_node_ids ==
            Listing(es, LAMBDA e : e.upstream_node_id \notin node_ids,
                    LAMBDA e : <<e.id, e.name, e.downstream_node_id>>)
    IN  IF edges_with_invalid_upstream_node_ids # << >>
           \/ edges_with_invalid_downstream_node_ids # << >>
          THEN [kind |-> "invalid node ids",
                upstream |-> edges_with_invalid_upstream_node_ids,
                downstream |-> edges_with_invalid_downstream_node_ids]
          ELSE NoError

_validate_edge_node_ids(ns, es) ==
    LET node_ids == { ns[i].id : i \in DOMAIN ns }
        edges_with_invalid_upstream_node_ids ==
            Listing(es, LAMBDA e : e.upstream_node_id \notin node_ids,
                    LAMBDA e : <<e.id, e.name, e.upstream_node_id>>)
        edges_with_invalid_downstream_node_ids ==
            Listing(es, LAMBDA e : e.downstream_node_id \notin node_ids,
                    LAMBDA e : <<e.id, e.name, e.downstream_node_id>>)
    IN  IF edges_with_invalid_upstream_node_ids # << >>
           \/ edges_with_invalid_downstream_node_ids # << >>
          THEN [kind |-> "invalid node ids",
                upstream |-> edges_with_invalid_upstream_node_ids,
                downstream |-> edges_with_invalid_downstream_node_ids]
          ELSE NoError

\* as orphaned_nodes, with only the upstream ends counted as having an edge
orphaned_nodes_upstream_only(ns, es) ==
    LET nodes_with_edges == { es[i].upstream_node_id : i \in DOMAIN es }
    IN  Listing(ns, LAMBDA n : n.id \notin nodes_with_edges, IdName)

\* The list the warning of _warn_orphaned_nodes names; empty when none is emitted
orphaned_nodes(ns, es) ==
    LET nodes_with_edges ==
            { es[i].upstream_node_id : i \in DOMAIN es }
            \cup { es[i].downstream_node_id : i \in DOMAIN es }
    IN  Listing(ns, LAMBDA n : n.id \notin nodes_with_edges, IdName)

----------------------------------------------------------------------------
(* Derived indices and the recursive traversal.  A call of discover_upstream *)
(* or discover_downstream needs one free stack frame; d is the number of     *)
(* frames that are free when the call is made.  With none left CPython       *)
(* raises RecursionError, which propagates through every caller up to the    *)
(* try statement of _validate_acyclic.                                       *)

\* {_.id: _ for _ in self.nodes}: a later node shadows an earlier one of the same id
nodes_as_dict(ns) ==
    [ k \in { ns[i].id : i \in DOMAIN ns } |->
        ns[CHOOSE i \in DOMAIN ns :
              ns[i].id = k /\ \A j \in DOMAIN ns : ns[j].id = k => j <= i] ]

Returned(ids) == [exc |-> "none", ids |-> ids]
Raised(e)     == [exc |-> e, ids |-> << >>]

RECURSIVE discover_upstream(_, _, _, _)
RECURSIVE UpstreamLoop(_, _, _, _, _, _)
discover_upstream(self_id, ns, es, d) ==
    IF d <= 0
      THEN Raised("RecursionError")
      ELSE LET my_edges == SelectSeq(es, LAMBDA e : e.downstream_node_id = self_id)
           IN  UpstreamLoop(my_edges, 1, << >>, ns, es, d)

\* as UpstreamLoop, collecting only the upstream ends of the node's own edges
UpstreamLoop_parents_only(my_edges, i, my_upstream_nodes, ns, es, d) ==
    IF i > Len(my_edges)
      THEN Returned(sorted(Range(my_upstream_nodes)))
      ELSE LET edge == my_edges[i]
           IN  IF edge.upstream_node_id \notin DOMAIN nodes_as_dict(ns)
                 THEN Raised("KeyError")
                 ELSE LET output == discover_upstream(edge.upstream_node_id, ns, es, d - 1)
                      IN  IF output.exc # "none"
                            THEN output
                            ELSE UpstreamLoop(my_edges, i + 1,
                                     my_upstream_nodes \o <<edge.upstream_node_id>>,
                                     ns, es, d)

\* the for loop of discover_upstream from my_edges[i] on
UpstreamLoop(my_edges, i, my_upstream_nodes, ns, es, d) ==
    IF i > Len(my_edges)
      THEN Returned(sorted(Range(my_upstream_nodes)))
      ELSE LET edge == my_edges[i]
           IN  IF edge.upstream_node_id \notin DOMAIN nodes_as_dict(ns)
                 THEN Raised("KeyError")
                 ELSE LET output == discover_upstream(edge.upstream_node_id, ns, es, d - 1)
                      IN  IF output.exc # "none"
                            THEN output
                            ELSE UpstreamLoop(my_edges, i + 1,
                                     my_upstream_nodes \o output.ids
                                         \o <<edge.upstream_node_id>>,
                                     ns, es, d)

RECURSIVE discover_downstream(_, _, _, _)
RECURSIVE DownstreamLoop(_, _, _, _, _, _)
discover_downstream(self_id, ns, es, d) ==
    IF d <= 0
      THEN Raised("RecursionError")
      ELSE LET my_edges == SelectSeq(es, LAMBDA e : e.upstream_node_id = self_id)
           IN  DownstreamLoop(my_edges, 1, << >>, ns, es, d)

\* as DownstreamLoop, returning after the first of the node's own edges
DownstreamLoop_first_edge(my_edges, i, my_downstream_nodes, ns, es, d) ==
    IF i > Len(my_edges) \/ i > 1
      THEN Returned(sorted(Range(my_downstream_nodes)))
      ELSE LET edge == my_edges[i]
           IN  IF edge.downstream_node_id \notin DOMAIN nodes_as_dict(ns)
                 THEN Raised("KeyError")
                 ELSE LET output == discover_downstream(edge.downstream_node_id, ns, es, d - 1)
                      IN  IF output.exc # "none"
                            THEN output
                            ELSE DownstreamLoop(my_edges, i + 1,
                                     my_downstream_nodes \o output.ids
                                         \o <<edge.downstream_node_id>>,
                                     ns, es, d)

\* the for loop of discover_downstream from my_edges[i] on
DownstreamLoop(my_edges, i, my_downstream_nodes, ns, es, d) ==
    IF i > Len(my_edges)
      THEN Returned(sorted(Range(my_downstream_nodes)))
      ELSE LET edge == my_edges[i]
           IN  IF edge.downstream_node_id \notin DOMAIN nodes_as_dict(ns)
                 THEN Raised("KeyError")
                 ELSE LET output == discover_downstream(edge.downstream_node_id, ns, es, d - 1)
                      IN  IF output.exc # "none"
                            THEN output
                            ELSE DownstreamLoop(my_edges, i + 1,
                                     my_downstream_nodes \o output.ids
                                         \o <<edge.downstream_node_id>>,
                                     ns, es, d)

\* A dict comprehension {_.id: discover(_) for _ in self.nodes} over the results
\* r[i] of the calls: the first call that raises ends it, otherwise the dict.
DictOfCalls(ns, r) ==
    IF \E i \in DOMAIN ns : r[i].exc # "none"
      THEN [exc |-> r[CHOOSE i \in DOMAIN ns :
                        r[i].exc # "none"
                        /\ \A j \in DOMAIN ns : r[j].exc # "none" => i <= j].exc,
            value |-> << >>]
      ELSE [exc |-> "none",
            value |-> [ k \in { ns[i].id : i \in DOMAIN ns } |->
                          r[CHOOSE i \in DOMAIN ns :
                                ns[i].id = k
                                /\ \A j \in DOMAIN ns : ns[j].id = k => j <= i].ids ]]

\* body of the cached property Graph.upstream_node_ids
compute_upstream_node_ids(ns, es, d) ==
    DictOfCalls(ns, [ i \in DOMAIN ns |-> discover_upstream(ns[i].id, ns, es, d) ])

\* body of the cached property Graph.downstream_node_ids
compute_downstream_node_ids(ns, es, d) ==
    DictOfCalls(ns, [ i \in DOMAIN ns |-> discover_downstream(ns[i].id, ns, es, d) ])

\* What _validate_acyclic does with d free frames: the ValueError it raises, an
\* exception it lets through, or NoError; and the two caches it has filled.
NotCached == [cached |-> FALSE]
Cached(v) == [cached |-> TRUE, value |-> v]

\* as _validate_acyclic, with the RecursionError swallowed instead of converted
_validate_acyclic_swallowing(ns, es, d) ==
    LET up   == compute_upstream_node_ids(ns, es, d)
        down == compute_downstream_node_ids(ns, es, d)
    IN  [err |-> NoError,
         up |-> IF up.exc = "none" THEN Cached(up.value) ELSE NotCached,
         down |-> IF down.exc = "none" THEN Cached(down.value) ELSE NotCached]

_validate_acyclic(ns, es, d) ==
    LET up   == compute_upstream_node_ids(ns, es, d)
        down == compute_downstream_node_ids(ns, es, d)
    IN  IF up.exc = "RecursionError"
          THEN [err |-> [kind |-> "cyclic properties", while |-> "upstream_node_ids"],
                up |-> NotCached, down |-> NotCached]
        ELSE IF up.exc # "none"
          THEN [err |-> [kind |-> up.exc, while |-> "upstream_node_ids"],
                up |-> NotCached, down |-> NotCached]
        ELSE IF down.exc = "RecursionError"
          THEN [err |-> [kind |-> "cyclic properties", while |-> "downstream_node_ids"],
                up |-> Cached(up.value), down |-> NotCached]
        ELSE IF down.exc # "none"
          THEN [err |-> [kind |-> down.exc, while |-> "downstream_node_ids"],
                up |-> Cached(up.value), down |-> NotCached]
        ELSE [err |-> NoError, up |-> Cached(up.value), down |-> Cached(down.value)]

----------------------------------------------------------------------------
(* The call stack of the traversal: how many calls of discover_upstream,    *)
(* resp. discover_downstream, are nested in one another at the deepest      *)
(* point, i.e. how many nodes the longest path followed holds.  A call that *)
(* finds no free frame is not counted; the loop of a call ends at the first *)
(* edge whose call raises.                                                  *)

Max(S) == CHOOSE x \in S : \A y \in S : y <= x

RECURSIVE upstream_nesting(_, _, _, _)
upstream_nesting(self_id, ns, es, d) ==
    IF d <= 0 THEN 0
    ELSE LET my_edges == SelectSeq(es, LAMBDA e : e.downstream_node_id = self_id)
             reached  == { i \in DOMAIN my_edges :
                             /\ my_edges[i].upstream_node_id \in DOMAIN nodes_as_dict(ns)
                             /\ \A j \in 1..(i - 1) :
                                   discover_upstream(my_edges[j].upstream_node_id,
                                                     ns, es, d - 1).exc = "none" }
         IN  1 + Max({0} \cup { upstream_nesting(my_edges[i].upstream_node_id, ns, es, d - 1) :
                                   i \in reached })

RECURSIVE downstream_nesting(_, _, _, _)
downstream_nesting(self_id, ns, es, d) ==
    IF d <= 0 THEN 0
    ELSE LET my_edges == SelectSeq(es, LAMBDA e : e.upstream_node_id = self_id)
             reached  == { i \in DOMAIN my_edges :
                             /\ my_edges[i].downstream_node_id \in DOMAIN nodes_as_dict(ns)
                             /\ \A j \in 1..(i - 1) :
                                   discover_downstream(my_edges[j].downstream_node_id,
                                                       ns, es, d - 1).exc = "none" }
         IN  1 + Max({0} \cup { downstream_nesting(my_edges[i].downstream_node_id, ns, es, d - 1) :
                                   i \in reached })

\* the deepest nesting while _validate_acyclic runs with d free frames: the
\* dict comprehensions call the nodes in list order up to the first call that
\* raises, and downstream_node_ids is computed only if upstream_node_ids was
acyclic_nesting(ns, es, d) ==
    LET up_reached ==
            { i \in DOMAIN ns :
                \A j \in 1..(i - 1) : discover_upstream(ns[j].id, ns, es, d).exc = "none" }
        down_reached ==
            IF compute_upstream_node_ids(ns, es, d).exc # "none" THEN {}
            ELSE { i \in DOMAIN ns :
                     \A j \in 1..(i - 1) :
                        discover_downstream(ns[j].id, ns, es, d).exc = "none" }
    IN  Max({0} \cup { upstream_nesting(ns[i].id, ns, es, d) : i \in up_reached }
                \cup { downstream_nesting(ns[i].id, ns, es, d) : i \in down_reached })

----------------------------------------------------------------------------
(* Inputs of a construction attempt *)

Node(id, name, dkey, ukey) ==
    [id |-> id, name |-> name,
     pull_from_downstream_agg_key |-> dkey, pull_from_upstream_agg_key |-> ukey]

\* An Edge object exists only with upstream_node_id # downstream_node_id
\* (Edge._no_dup_node_ids)
Edge(id, name, up, down, ukey, dkey) ==
    [id |-> id, name |-> name, upstream_node_id |-> up, downstream_node_id |-> down,
     upstream_method_key |-> ukey, downstream_method_key |-> dkey]

NodeName(i) == "node" \o ToString(i)
EdgeName(i) == "edge" \o ToString(i)

PlainNode(i) == Node(i, NodeName(i), "agg", "agg")
PlainEdge(i, p) == Edge(i, EdgeName(i), p[1], p[2], "pull", "pull")

\* lists of at most n entries drawn from S
ListsUpTo(S, n) == UNION { [1..k -> S] : k \in 0..n }

\* the construction is given the lists ns and es and registries with the keys pm, am
\* the global variables are a value the Graph only carries: no validator and no
\* index looks into it
Globals == [kind |-> "GlobalVariables"]

Given(ns, es, pm, am) ==
    /\ nodes = ns /\ edges = es /\ pull_methods = pm /\ agg_methods = am
    /\ global_variables = Globals

\* Structural inputs: nodes 0..n-1 in ascending or descending order and any set of
\* at most MaxEdges distinct endpoint pairs over these nodes, listed in ascending
\* order of the pair; ids, names and keys are in order.
NodeIds(n) == 0 .. n - 1
Pairs(n) == { p \in NodeIds(n) \X NodeIds(n) : p[1] # p[2] }
PairCode(p) == p[1] * MaxNodes + p[2]
RECURSIVE AscendingPairLists(_, _)
\* the lists of exactly k pairs over n nodes, in ascending order of the pair
AscendingPairLists(n, k) ==
    IF k = 0 THEN { << >> }
    ELSE UNION { { Append(s, p) :
                     p \in { q \in Pairs(n) :
                               Len(s) > 0 => PairCode(s[Len(s)]) < PairCode(q) } }
                 : s \in AscendingPairLists(n, k - 1) }
StructNodeLists(n) ==
    LET asc == [ i \in 1..n |-> PlainNode(i - 1) ] IN { asc, Reverse(asc) }
StructEdgeLists(n, k) ==
    { [ i \in 1..Len(s) |-> PlainEdge(i - 1, s[i]) ] : s \in AscendingPairLists(n, k) }
StructInputs ==
    \E n \in 0..MaxNodes, k \in 0..MaxEdges :
       \E ns \in StructNodeLists(n), es \in StructEdgeLists(n, k) :
          Given(ns, es, {"pull"}, {"agg"})

\* Identity and key inputs: short lists in which ids, names and method keys vary,
\* edges that end at the missing node 2, and registries that hold or lack the
\* second key.
MaxIdent == 2        \* length of the lists in which ids, names and keys vary
MaxPairs == 3        \* length of the lists in which endpoint pairs repeat

IdentNodes ==
    { Node(i, NodeName(j), "agg", "agg") : i \in 0..1, j \in 0..1 }
    \cup { Node(i, NodeName(i), dk, uk) : i \in 0..1, dk \in {"agg", "agg2"}, uk \in {"agg", "agg2"} }
IdentEdges ==
    { Edge(i, EdgeName(j), 0, 1, "pull", "pull") : i \in 0..1, j \in 0..1 }
    \cup { Edge(0, EdgeName(0), 0, 1, uk, dk) : uk \in {"pull", "pull2"}, dk \in {"pull", "pull2"} }
    \cup { Edge(1, EdgeName(1), 1, 2, uk, dk) : uk \in {"pull", "pull2"}, dk \in {"pull", "pull2"} }
    \cup { Edge(1, EdgeName(1), 2, 0, "pull", "pull") }
FewNodeLists ==
    { << PlainNode(0), PlainNode(1) >>,
      << PlainNode(0), Node(0, NodeName(1), "agg", "agg") >>,
      << PlainNode(0), Node(1, NodeName(1), "agg2", "agg") >>,
      << PlainNode(0), PlainNode(1), PlainNode(2) >> }
FewEdgeLists ==
    { << >>,
      << PlainEdge(0, <<0, 1>>) >>,
      << Edge(0, EdgeName(0), 0, 1, "pull2", "pull") >>,
      << PlainEdge(0, <<0, 2>>) >>,
      << Edge(0, EdgeName(0), 0, 2, "pull", "pull2") >> }
Registries == { <<{"pull"}, {"agg"}>>, <<{"pull", "pull2"}, {"agg", "agg2"}>> }
IdentInputs ==
    \E r \in Registries :
       \/ \E k \in 0..MaxIdent : \E ns \in [1..k -> IdentNodes], es \in FewEdgeLists :
             Given(ns, es, r[1], r[2])
       \/ \E k \in 0..MaxIdent : \E ns \in FewNodeLists, es \in [1..k -> IdentEdges] :
             Given(ns, es, r[1], r[2])

\* Pair inputs: edges with ids and names in order whose endpoint pairs repeat
PairLists == ListsUpTo({ <<0, 1>>, <<1, 0>>, <<1, 2>> }, MaxPairs)
PairInputs ==
    \E s \in PairLists :
       Given(<< PlainNode(0), PlainNode(1), PlainNode(2) >>,
             [ i \in 1..Len(s) |-> PlainEdge(i - 1, s[i]) ], {"pull"}, {"agg"})

----------------------------------------------------------------------------
(* The construction Graph(nodes=..., edges=..., ...) *)

\* no cached property of the Graph has been computed
NothingCached ==
    [node_ids |-> NotCached, edge_ids |-> NotCached, nodes_as_dict |-> NotCached,
     edges_as_dict |-> NotCached, root_nodes |-> NotCached, leaf_nodes |-> NotCached]

\* a construction of a Graph starts
GraphStart ==
    /\ pc = "fields"
    /\ errors = << >>
    /\ warnings = << >>
    /\ depth = -1
    /\ upstream_node_ids = NotCached
    /\ downstream_node_ids = NotCached
    /\ cached = NothingCached

None == [exists |-> FALSE]

\* no earlier attempt, and no Edge or WorkUnit is being constructed
OnlyGraph ==
    /\ previous = None
    /\ edge_fields = None
    /\ work_unit = None
    /\ risk_weighted_value = None

\* Pair inputs whose edges, moreover, all carry the id 0
SharedIdPairInputs ==
    \E s \in PairLists :
       Given(<< PlainNode(0), PlainNode(1), PlainNode(2) >>,
             [ i \in 1..Len(s) |-> Edge(0, EdgeName(i - 1), s[i][1], s[i][2], "pull", "pull") ],
             {"pull"}, {"agg"})

Init ==
    /\ (StructInputs \/ IdentInputs \/ PairInputs \/ SharedIdPairInputs)
    /\ GraphStart
    /\ OnlyGraph

input == <<nodes, edges, pull_methods, agg_methods, global_variables>>
caches == <<upstream_node_ids, downstream_node_ids>>
others == <<previous, edge_fields, work_unit, risk_weighted_value>>

\* the ValidationError of a model validator that raised ValueError
ModelError(e) == << [loc |-> "model", err |-> e] >>

\* Field validation: nodes and edges are validated independently; the model
\* validators run only if no field failed.
ValidateFields ==
    /\ pc = "fields"
    /\ errors' = FieldErrors(nodes, edges)
    /\ pc' = IF FieldErrors(nodes, edges) = << >> THEN "pull_method_keys" ELSE "failed"
    /\ UNCHANGED <<input, warnings, depth, caches, cached, others>>

ValidatePullMethodKeys ==
    /\ pc = "pull_method_keys"
    /\ LET e == _validate_pull_method_keys(edges, pull_methods)
       IN  IF e = NoError
             THEN pc' = "agg_method_keys" /\ UNCHANGED errors
             ELSE pc' = "failed" /\ errors' = ModelError(e)
    /\ UNCHANGED <<input, warnings, depth, caches, cached, others>>

ValidateAggMethodKeys ==
    /\ pc = "agg_method_keys"
    /\ LET e == _validate_agg_method_keys(nodes, agg_methods)
       IN  IF e = NoError
             THEN pc' = "edge_node_ids" /\ UNCHANGED errors
             ELSE pc' = "failed" /\ errors' = ModelError(e)
    /\ UNCHANGED <<input, warnings, depth, caches, cached, others>>

\* as ValidateEdgeNodeIds, going on to the next stage whatever the endpoints are
ValidateEdgeNodeIds_passing ==
    /\ pc = "edge_node_ids"
    /\ pc' = "orphaned_nodes"
    /\ UNCHANGED <<input, errors, warnings, depth, caches, cached, others>>

ValidateEdgeNodeIds ==
    /\ pc = "edge_node_ids"
    /\ LET e == _validate_edge_node_ids(nodes, edges)
       IN  IF e = NoError
             THEN pc' = "orphaned_nodes" /\ UNCHANGED errors
             ELSE pc' = "failed" /\ errors' = ModelError(e)
    /\ UNCHANGED <<input, warnings, depth, caches, cached, others>>

WarnOrphanedNodes ==
    /\ pc = "orphaned_nodes"
    /\ warnings' = IF orphaned_nodes(nodes, edges) # << >>
                     THEN Append(warnings, orphaned_nodes(nodes, edges))
                     ELSE warnings
    /\ pc' = "acyclic"
    /\ UNCHANGED <<input, errors, depth, caches, cached, others>>

\* The number of free stack frames is the caller's business: any d can occur.
ValidateAcyclic ==
    /\ pc = "acyclic"
    /\ \E d \in 1..MaxDepth :
          \E r \in { _validate_acyclic(nodes, edges, d) } :
              /\ depth' = d
              /\ upstream_node_ids' = r.up
              /\ downstream_node_ids' = r.down
              /\ IF r.err = NoError
                   THEN pc' = "done" /\ UNCHANGED errors
                   ELSE pc' = "failed" /\ errors' = ModelError(r.err)
    \* the traversal looks nodes up in nodes_as_dict as soon as a node has an edge
    /\ cached' = IF edges # << >>
                   THEN [cached EXCEPT !.nodes_as_dict = Cached(nodes_as_dict(nodes))]
                   ELSE cached
    /\ UNCHANGED <<input, warnings, others>>

Next ==
    \/ ValidateFields
    \/ ValidatePullMethodKeys
    \/ ValidateAggMethodKeys
    \/ ValidateEdgeNodeIds
    \/ WarnOrphanedNodes
    \/ ValidateAcyclic

Spec == Init /\ [][Next]_vars

----------------------------------------------------------------------------
(* A second attempt: the caller constructs a Graph again from the same      *)
(* input, keeping what the first attempt gave.                              *)

\* what the caller sees of a finished attempt: the Graph or the violations
Outcome == [exists |-> TRUE, status |-> pc, errors |-> errors]

Retry ==
    /\ pc \in {"done", "failed"}
    /\ previous = None
    /\ previous' = Outcome
    /\ pc' = "fields"
    /\ errors' = << >>
    /\ warnings' = << >>
    /\ depth' = -1
    /\ upstream_node_ids' = NotCached
    /\ downstream_node_ids' = NotCached
    /\ cached' = NothingCached
    /\ UNCHANGED <<input, edge_fields, work_unit, risk_weighted_value>>

RetryNext ==
    \/ Next
    \/ Retry

SpecRetry == Init /\ [][RetryNext]_vars

----------------------------------------------------------------------------
(* The derived indices of a constructed Graph.  Each is a cached property:  *)
(* its body runs on the first read and the value is kept on the instance.   *)

RECURSIVE sorted_list(_)
\* Python's sorted(list) on integers: every entry is kept, repeats included
sorted_list(s) ==
    IF s = << >> THEN << >>
    ELSE LET m == Min(Range(s))
             i == CHOOSE k \in DOMAIN s : s[k] = m /\ \A j \in DOMAIN s : s[j] = m => k <= j
         IN  <<m>> \o sorted_list(SubSeq(s, 1, i - 1) \o SubSeq(s, i + 1, Len(s)))

\* as node_ids, without the sort
node_ids_unsorted(ns) == [ i \in DOMAIN ns |-> ns[i].id ]

node_ids(ns) == sorted_list([ i \in DOMAIN ns |-> ns[i].id ])

edge_ids(es) == sorted_list([ i \in DOMAIN es |-> es[i].id ])

\* as edges_as_dict, keyed by the upstream end instead of the edge id
edges_as_dict_by_upstream(es) ==
    [ k \in { es[i].upstream_node_id : i \in DOMAIN es } |->
        es[CHOOSE i \in DOMAIN es :
              es[i].upstream_node_id = k
              /\ \A j \in DOMAIN es : es[j].upstream_node_id = k => j <= i] ]

\* {_.id: _ for _ in self.edges}
edges_as_dict(es) ==
    [ k \in { es[i].id : i \in DOMAIN es } |->
        es[CHOOSE i \in DOMAIN es :
              es[i].id = k /\ \A j \in DOMAIN es : es[j].id = k => j <= i] ]

\* as root_nodes, with the upstream ends taken for the non-root ids
root_nodes_upstream_ends(ns, es, ids) ==
    LET non_root_node_ids == { es[i].upstream_node_id : i \in DOMAIN es }
        root_node_ids == Range(ids) \ non_root_node_ids
    IN  SelectSeq(ns, LAMBDA n : n.id \in root_node_ids)

\* ids is the value of self.node_ids
root_nodes(ns, es, ids) ==
    LET non_root_node_ids == { es[i].downstream_node_id : i \in DOMAIN es }
        root_node_ids == Range(ids) \ non_root_node_ids
    IN  SelectSeq(ns, LAMBDA n : n.id \in root_node_ids)

\* as leaf_nodes, with the downstream ends taken for the non-leaf ids
leaf_nodes_downstream_ends(ns, es, ids) ==
    LET non_leaf_node_ids == { es[i].downstream_node_id : i \in DOMAIN es }
        leaf_node_ids == Range(ids) \ non_leaf_node_ids
    IN  SelectSeq(ns, LAMBDA n : n.id \in leaf_node_ids)

leaf_nodes(ns, es, ids) ==
    LET non_leaf_node_ids == { es[i].upstream_node_id : i \in DOMAIN es }
        leaf_node_ids == Range(ids) \ non_leaf_node_ids
    IN  SelectSeq(ns, LAMBDA n : n.id \in leaf_node_ids)

\* the cache after a read of self.node_ids
WithNodeIds(c) ==
    IF c.node_ids.cached THEN c ELSE [c EXCEPT !.node_ids = Cached(node_ids(nodes))]

construction == <<input, pc, errors, warnings, depth, caches, others>>

\* as ReadNodeIds, with self.nodes sorted in place (list.sort) before the ids
\* are taken
ReadNodeIds_in_place ==
    /\ pc = "done"
    /\ nodes' = [ i \in DOMAIN nodes |-> nodes_as_dict(nodes)[node_ids(nodes)[i]] ]
    /\ cached' = WithNodeIds(cached)
    /\ UNCHANGED <<edges, pull_methods, agg_methods, global_variables, pc, errors,
                   warnings, depth, caches, others>>

ReadNodeIds ==
    /\ pc = "done"
    /\ cached' = WithNodeIds(cached)
    /\ UNCHANGED construction

ReadEdgeIds ==
    /\ pc = "done"
    /\ cached' = IF cached.edge_ids.cached THEN cached
                   ELSE [cached EXCEPT !.edge_ids = Cached(edge_ids(edges))]
    /\ UNCHANGED construction

ReadNodesAsDict ==
    /\ pc = "done"
    /\ cached' = IF cached.nodes_as_dict.cached THEN cached
                   ELSE [cached EXCEPT !.nodes_as_dict = Cached(nodes_as_dict(nodes))]
    /\ UNCHANGED construction

ReadEdgesAsDict ==
    /\ pc = "done"
    /\ cached' = IF cached.edges_as_dict.cached THEN cached
                   ELSE [cached EXCEPT !.edges_as_dict = Cached(edges_as_dict(edges))]
    /\ UNCHANGED construction

\* the bodies of root_nodes and leaf_nodes read self.node_ids
ReadRootNodes ==
    /\ pc = "done"
    /\ cached' = IF cached.root_nodes.cached THEN cached
                   ELSE [WithNodeIds(cached) EXCEPT !.root_nodes =
                            Cached(root_nodes(nodes, edges, WithNodeIds(cached).node_ids.value))]
    /\ UNCHANGED construction

ReadLeafNodes ==
    /\ pc = "done"
    /\ cached' = IF cached.leaf_nodes.cached THEN cached
                   ELSE [WithNodeIds(cached) EXCEPT !.leaf_nodes =
                            Cached(leaf_nodes(nodes, edges, WithNodeIds(cached).node_ids.value))]
    /\ UNCHANGED construction

\* upstream_node_ids and downstream_node_ids were read, and so cached, by
\* _validate_acyclic of every successful construction: a later read returns
\* the cached value
ReadUpstreamNodeIds ==
    /\ pc = "done"
    /\ upstream_node_ids.cached
    /\ UNCHANGED <<construction, cached>>

ReadDownstreamNodeIds ==
    /\ pc = "done"
    /\ downstream_node_ids.cached
    /\ UNCHANGED <<construction, cached>>

MaxIndexNodes == 3   \* at most MaxIndexNodes nodes in a Graph whose indices are read
MaxIndexEdges == 2   \* at most MaxIndexEdges edges in a Graph whose indices are read

\* Inputs of the constructions whose result is read: structural inputs with the
\* node list and the edge list each in ascending or descending order of id
IndexInputs ==
    \E n \in 0..MaxIndexNodes, k \in 0..MaxIndexEdges :
       \E ns \in StructNodeLists(n), es \in StructEdgeLists(n, k) :
          \/ Given(ns, es, {"pull"}, {"agg"})
          \/ Given(ns, Reverse(es), {"pull"}, {"agg"})

IndexInit ==
    /\ IndexInputs
    /\ GraphStart
    /\ OnlyGraph

IndexNext ==
    \/ Next
    \/ ReadNodeIds
    \/ ReadEdgeIds
    \/ ReadNodesAsDict
    \/ ReadEdgesAsDict
    \/ ReadRootNodes
    \/ ReadLeafNodes
    \/ ReadUpstreamNodeIds
    \/ ReadDownstreamNodeIds

SpecIndices == IndexInit /\ [][IndexNext]_vars

----------------------------------------------------------------------------
(* The construction Edge(id=..., name=..., ...) from well-typed data: the   *)
(* fields are taken as they are and the model validator runs.               *)

\* as _no_dup_node_ids, comparing the edge's own id with its upstream end
_no_dup_node_ids_own_id(self) ==
    IF self.id = self.upstream_node_id
      THEN [kind |-> "cyclical dependency", edge |-> IdName(self)]
      ELSE NoError

_no_dup_node_ids(self) ==
    IF self.downstream_node_id = self.upstream_node_id
      THEN [kind |-> "cyclical dependency", edge |-> IdName(self)]
      ELSE NoError

MaxEnd == 2          \* the ends and the id of a candidate Edge are 0 .. MaxEnd

EdgeData ==
    { Edge(i, EdgeName(j), up, down, uk, dk) :
        i \in 0..MaxEnd, j \in 0..1, up \in 0..MaxEnd, down \in 0..MaxEnd,
        uk \in {"pull", "pull2"}, dk \in {"pull", "pull2"} }

\* no Graph is being constructed
NoGraph ==
    /\ Given(<< >>, << >>, {}, {})
    /\ warnings = << >>
    /\ depth = -1
    /\ upstream_node_ids = NotCached
    /\ downstream_node_ids = NotCached
    /\ cached = NothingCached
    /\ previous = None

EdgeInit ==
    /\ edge_fields \in EdgeData
    /\ pc = "edge"
    /\ errors = << >>
    /\ NoGraph
    /\ work_unit = None
    /\ risk_weighted_value = None

graph == <<input, warnings, depth, caches, cached, previous>>

ValidateEdge ==
    /\ pc = "edge"
    /\ LET e == _no_dup_node_ids(edge_fields)
       IN  IF e = NoError
             THEN pc' = "done" /\ UNCHANGED errors
             ELSE pc' = "failed" /\ errors' = ModelError(e)
    /\ UNCHANGED <<graph, edge_fields, work_unit, risk_weighted_value>>

EdgeNext == ValidateEdge

SpecEdge == EdgeInit /\ [][EdgeNext]_vars

----------------------------------------------------------------------------
(* Python float arithmetic, as far as risk_weighted_value uses it.  A float *)
(* is an IEEE 754 double: a sign and a significand of Precision binary      *)
(* digits scaled by a power of two; every operation returns the exact       *)
(* result rounded to the nearest double, ties to the even one.  The doubles *)
(* met here are far from overflow and from the subnormal range.             *)
(* Natural numbers of any size are lists of digits in base Base, lowest     *)
(* first, without leading zeros.                                            *)

Precision == 53
BaseDigits == 15
Base == 2 ^ BaseDigits

RECURSIVE Digits(_)
Digits(n) == IF n = 0 THEN << >> ELSE <<n % Base>> \o Digits(n \div Base)

RECURSIVE Trim(_)
Trim(b) == IF b = << >> THEN b
           ELSE IF b[Len(b)] # 0 THEN b
           ELSE Trim(SubSeq(b, 1, Len(b) - 1))

Digit(b, i) == IF i \in DOMAIN b THEN b[i] ELSE 0

RECURSIVE TimesFrom(_, _, _, _)
TimesFrom(b, i, k, carry) ==
    IF i > Len(b) THEN Digits(carry)
    ELSE <<(b[i] * k + carry) % Base>>
         \o TimesFrom(b, i + 1, k, (b[i] * k + carry) \div Base)
\* b * k for a natural k < Base
Times(b, k) == Trim(TimesFrom(b, 1, k, 0))

\* b * 2^k
ShiftLeft(b, k) ==
    IF b = << >> THEN b
    ELSE [ i \in 1..(k \div BaseDigits) |-> 0 ] \o Times(b, 2 ^ (k % BaseDigits))

RECURSIVE PlusFrom(_, _, _, _)
PlusFrom(a, b, i, carry) ==
    IF i > Len(a) /\ i > Len(b) THEN Digits(carry)
    ELSE <<(Digit(a, i) + Digit(b, i) + carry) % Base>>
         \o PlusFrom(a, b, i + 1, (Digit(a, i) + Digit(b, i) + carry) \div Base)
Plus(a, b) == PlusFrom(a, b, 1, 0)

RECURSIVE MinusFrom(_, _, _, _)
MinusFrom(a, b, i, borrow) ==
    IF i > Len(a) THEN << >>
    ELSE <<(Base + Digit(a, i) - Digit(b, i) - borrow) % Base>>
         \o MinusFrom(a, b, i + 1, IF Digit(a, i) - Digit(b, i) - borrow < 0 THEN 1 ELSE 0)
\* a - b for a >= b
Minus(a, b) == Trim(MinusFrom(a, b, 1, 0))

\* a <= b
AtMost(a, b) ==
    \/ Len(a) < Len(b)
    \/ /\ Len(a) = Len(b)
       /\ \A i \in DOMAIN a :
             a[i] > b[i] => \E j \in (i + 1)..Len(a) : a[j] < b[j]

RECURSIVE RemainderFrom(_, _, _)
\* the number made of the digits i and above of b, modulo d < Base
RemainderFrom(b, i, d) ==
    IF i > Len(b) THEN 0 ELSE (Base * RemainderFrom(b, i + 1, d) + b[i]) % d
\* b \div d for a natural d < Base, by long division
Quotient(b, d) ==
    Trim([ i \in DOMAIN b |-> (Base * RemainderFrom(b, i + 1, d) + b[i]) \div d ])

\* b \div 2^k
ShiftRight(b, k) ==
    Quotient(SubSeq(b, (k \div BaseDigits) + 1, Len(b)), 2 ^ (k % BaseDigits))

\* the number of binary digits of b
BitLength(b) ==
    IF b = << >> THEN 0
    ELSE BaseDigits * (Len(b) - 1)
         + (CHOOSE n \in 1..BaseDigits : 2 ^ (n - 1) <= b[Len(b)] /\ b[Len(b)] < 2 ^ n)

Zero == [negative |-> FALSE, significand |-> << >>, exponent |-> 0]

\* the float of value (-1)^negative * m * 2^e, for m of at most Precision
\* binary digits; the significand is kept at exactly Precision digits
Float(negative, m, e) ==
    IF m = << >> THEN Zero
    ELSE [negative |-> negative,
          significand |-> ShiftLeft(m, Precision - BitLength(m)),
          exponent |-> e - (Precision - BitLength(m))]

RECURSIVE Rounded(_, _, _)
\* the double nearest to (-1)^negative * m * 2^e, ties to even
Rounded(negative, m, e) ==
    IF BitLength(m) <= Precision THEN Float(negative, m, e)
    ELSE LET cut    == BitLength(m) - Precision
             kept   == ShiftRight(m, cut)
             twice  == Times(Minus(m, ShiftLeft(kept, cut)), 2)   \* 2 * what is cut off
             whole  == ShiftLeft(<<1>>, cut)
             up     == IF twice = whole THEN kept[1] % 2 = 1 ELSE ~AtMost(twice, whole)
         IN  Rounded(negative, IF up THEN Plus(kept, <<1>>) ELSE kept, e + cut)

Abs(n) == IF n < 0 THEN -n ELSE n

\* a / b for ints a >= 0 and 0 < b < Base: the quotient is taken to
\* 2 * Precision binary digits after the point, and one more digit records
\* whether the division left a remainder
true_divide(a, b) ==
    LET scaled == ShiftLeft(Digits(a), 2 * Precision)
        sticky == IF RemainderFrom(scaled, 1, b) # 0 THEN <<1>> ELSE << >>
    IN  Rounded(FALSE, Plus(Times(Quotient(scaled, b), 2), sticky), -(2 * Precision) - 1)

\* n * x for an int 0 <= n < Base and a float x
int_times_float(n, x) ==
    Rounded(x.negative, Times(x.significand, n), x.exponent)

\* n + x for an int n and a float x >= 0
int_plus_float(n, x) ==
    LET e == IF x.exponent < 0 THEN x.exponent ELSE 0
        a == ShiftLeft(Digits(Abs(n)), -e)
        b == ShiftLeft(x.significand, x.exponent - e)
    IN  IF n >= 0 THEN Rounded(FALSE, Plus(a, b), e)
        ELSE IF AtMost(a, b) THEN Rounded(FALSE, Minus(b, a), e)
        ELSE Rounded(TRUE, Minus(a, b), e)

----------------------------------------------------------------------------
(* The construction WorkUnit.model_validate(obj) from well-typed data: the  *)
(* constraints of the field probability_of_success are checked first, the   *)
(* model validator runs only if they hold.                                  *)

\* Field(ge=0, le=100)
probability_of_success_constraints(p) ==
    IF ~(p >= 0) THEN [kind |-> "Input should be greater than or equal to 0"]
    ELSE IF ~(p <= 100) THEN [kind |-> "Input should be less than or equal to 100"]
    ELSE NoError

\* as _success_value_ge_unconditional_value, rejecting equal values as well
_success_value_gt_unconditional_value(self) ==
    IF self.success_value <= self.unconditional_value
      THEN [kind |-> "success_value must be greater than unconditional_value."]
      ELSE NoError

_success_value_ge_unconditional_value(self) ==
    IF self.success_value < self.unconditional_value
      THEN [kind |-> "success_value must be greater than unconditional_value."]
      ELSE NoError

MaxProbability == 101   \* probability_of_success is drawn from -1 .. MaxProbability
MaxValue == 2           \* the two values are drawn from -MaxValue .. MaxValue
                        \* and from the values of the test suite

SampleValues == {30, 60, 61}

WorkUnitData ==
    { [id |-> 5, dependent_on_success |-> << >>, dependent_on_unconditionally |-> << >>,
       probability_of_success |-> p, success_value |-> sv, unconditional_value |-> uv] :
        p \in -1..MaxProbability,
        sv \in (-MaxValue..MaxValue) \cup SampleValues,
        uv \in (-MaxValue..MaxValue) \cup SampleValues }

WorkUnitInit ==
    /\ work_unit \in WorkUnitData
    /\ pc = "work_unit_fields"
    /\ errors = << >>
    /\ risk_weighted_value = None
    /\ NoGraph
    /\ edge_fields = None

ValidateWorkUnitFields ==
    /\ pc = "work_unit_fields"
    /\ LET e == probability_of_success_constraints(work_unit.probability_of_success)
       IN  IF e = NoError
             THEN pc' = "work_unit_model" /\ UNCHANGED errors
             ELSE pc' = "failed"
                  /\ errors' = << [loc |-> "probability_of_success", err |-> e] >>
    /\ UNCHANGED <<graph, edge_fields, work_unit, risk_weighted_value>>

ValidateSuccessValue ==
    /\ pc = "work_unit_model"
    /\ LET e == _success_value_ge_unconditional_value(work_unit)
       IN  IF e = NoError
             THEN pc' = "done" /\ UNCHANGED errors
             ELSE pc' = "failed" /\ errors' = ModelError(e)
    /\ UNCHANGED <<graph, edge_fields, work_unit, risk_weighted_value>>

\* as compute_risk_weighted_value, weighting by the probability of failure
compute_risk_weighted_value_of_failure(self) ==
    int_plus_float(self.unconditional_value,
                   int_times_float(self.success_value - self.unconditional_value,
                                   true_divide(100 - self.probability_of_success, 100)))

\* as compute_risk_weighted_value, adding the weighted difference to success_value
compute_risk_weighted_value_from_success(self) ==
    int_plus_float(self.success_value,
                   int_times_float(self.success_value - self.unconditional_value,
                                   true_divide(self.probability_of_success, 100)))

\* the body of the property risk_weighted_value
compute_risk_weighted_value(self) ==
    int_plus_float(self.unconditional_value,
                   int_times_float(self.success_value - self.unconditional_value,
                                   true_divide(self.probability_of_success, 100)))

\* a read of work_unit.risk_weighted_value; the property is computed on each read
ReadRiskWeightedValue ==
    /\ pc = "done"
    /\ work_unit # None
    /\ risk_weighted_value' = compute_risk_weighted_value(work_unit)
    /\ UNCHANGED <<graph, pc, errors, edge_fields, work_unit>>

WorkUnitNext ==
    \/ ValidateWorkUnitFields
    \/ ValidateSuccessValue
    \/ ReadRiskWeightedValue

SpecWorkUnit == WorkUnitInit /\ [][WorkUnitNext]_vars

----------------------------------------------------------------------------
(* Vocabulary of the properties, stated on the input itself and not through *)
(* the validators.                                                          *)

Succeeded == pc = "done"
Failed    == pc = "failed"
Finished  == Succeeded \/ Failed

\* s restricted to the positions in I, order kept
RECURSIVE Pick(_, _, _)
Pick(s, I, i) ==
    IF i > Len(s) THEN << >>
    ELSE (IF i \in I THEN << s[i] >> ELSE << >>) \o Pick(s, I, i + 1)

SharesId(value)   == \E i, j \in DOMAIN value : i # j /\ value[i].id = value[j].id
SharesName(value) == \E i, j \in DOMAIN value : i # j /\ value[i].name = value[j].name

PairOf(e)    == <<e.upstream_node_id, e.downstream_node_id>>
ReverseOf(e) == <<e.downstream_node_id, e.upstream_node_id>>
\* positions of the edges that repeat the pair of an earlier edge
RepeatPositions(es)  == { i \in DOMAIN es : \E j \in 1..i - 1 : PairOf(es[j]) = PairOf(es[i]) }
\* positions of the edges whose reverse pair belongs to an earlier edge
ReversePositions(es) == { i \in DOMAIN es : \E j \in 1..i - 1 : PairOf(es[j]) = ReverseOf(es[i]) }

IdsOf(ns) == { ns[i].id : i \in DOMAIN ns }
BadUpKeyPositions(es, keys)   == { i \in DOMAIN es : es[i].upstream_method_key \notin keys }
BadDownKeyPositions(es, keys) == { i \in DOMAIN es : es[i].downstream_method_key \notin keys }
BadDownAggPositions(ns, keys) == { i \in DOMAIN ns : ns[i].pull_from_downstream_agg_key \notin keys }
BadUpAggPositions(ns, keys)   == { i \in DOMAIN ns : ns[i].pull_from_upstream_agg_key \notin keys }
BadUpEndPositions(ns, es)     == { i \in DOMAIN es : es[i].upstream_node_id \notin IdsOf(ns) }
BadDownEndPositions(ns, es)   == { i \in DOMAIN es : es[i].downstream_node_id \notin IdsOf(ns) }

\* checks 1-3, 4, 5 and 6 of the pipeline
FieldChecksPass ==
    /\ ~SharesId(nodes) /\ ~SharesName(nodes)
    /\ ~SharesId(edges) /\ ~SharesName(edges)
    /\ RepeatPositions(edges) = {} /\ ReversePositions(edges) = {}
PullKeysResolve == BadUpKeyPositions(edges, pull_methods) = {}
                   /\ BadDownKeyPositions(edges, pull_methods) = {}
AggKeysResolve  == BadDownAggPositions(nodes, agg_methods) = {}
                   /\ BadUpAggPositions(nodes, agg_methods) = {}
EndpointsValid  == BadUpEndPositions(nodes, edges) = {}
                   /\ BadDownEndPositions(nodes, edges) = {}
PassesChecks1to6 == FieldChecksPass /\ PullKeysResolve /\ AggKeysResolve /\ EndpointsValid

\* pairs <<a, b>> with a directed path of at least one edge from a to b
Compose(P, E) ==
    { <<x[1][1], x[2][2]>> : x \in { y \in P \X E : y[1][2] = y[2][1] } }
RECURSIVE PathsWithin(_, _)
PathsWithin(E, n) ==
    IF n <= 1 THEN E
    ELSE LET P == PathsWithin(E, n - 1) IN P \cup Compose(P, E)
Paths(es) == PathsWithin({ PairOf(es[i]) : i \in DOMAIN es }, Len(es))
HasCycle(es) == \E p \in Paths(es) : p[1] = p[2]

\* the violation a failure carries for the model validator that raised
ModelErrorKind == IF Failed /\ Len(errors) = 1 /\ errors[1].loc = "model"
                    THEN errors[1].err.kind ELSE "none"
CycleError == ModelErrorKind = "cyclic properties"

----------------------------------------------------------------------------
(* C1: an input that passes checks 1-6 and whose edges contain a directed   *)
(* cycle (then of length >= 3) is rejected with the cycle error; no Graph   *)
(* is returned for it.                                                      *)
C1_CycleRejected ==
    (Finished /\ PassesChecks1to6 /\ HasCycle(edges)) => (Failed /\ CycleError)

\* a three-node cycle among the nodes has been rejected
C1_Witness ==
    /\ Failed /\ CycleError /\ PassesChecks1to6 /\ HasCycle(edges)
    /\ Len(edges) = 3 /\ depth = MaxDepth

(* C2: the cycle error is raised only for an edge set that contains a       *)
(* directed cycle; an acyclic input that passes checks 1-6 is accepted.     *)
C2_CycleErrorOnlyForCycles ==
    (Finished /\ PassesChecks1to6 /\ ~HasCycle(edges)) => (Succeeded /\ ~CycleError)

----------------------------------------------------------------------------
\* the check-groups 1-6 that the input violates
ViolatedGroups ==
    (IF SharesId(nodes) \/ SharesName(nodes) THEN {"node uniqueness"} ELSE {})
    \cup (IF SharesId(edges) \/ SharesName(edges) THEN {"edge uniqueness"} ELSE {})
    \cup (IF RepeatPositions(edges) # {} \/ ReversePositions(edges) # {}
            THEN {"edge pairs"} ELSE {})
    \cup (IF ~PullKeysResolve THEN {"pull keys"} ELSE {})
    \cup (IF ~AggKeysResolve THEN {"aggregation keys"} ELSE {})
    \cup (IF ~EndpointsValid THEN {"edge endpoints"} ELSE {})

\* the check-group a carried violation belongs to
GroupOf(e) ==
    IF e.loc = "nodes" THEN "node uniqueness"
    ELSE IF e.loc = "edges"
      THEN (IF e.err.kind = "Duplicate or bidirectional edges"
              THEN "edge pairs" ELSE "edge uniqueness")
    ELSE IF e.err.kind = "missing pull method keys" THEN "pull keys"
    ELSE IF e.err.kind = "missing aggregation keys" THEN "aggregation keys"
    ELSE IF e.err.kind = "invalid node ids" THEN "edge endpoints"
    ELSE "cycle"
ReportedGroups == { GroupOf(errors[i]) : i \in DOMAIN errors }

----------------------------------------------------------------------------
\* what the uniqueness check must report for the list value
UniqueReportRight(value, r) ==
    LET dupIds   == { value[i].id : i \in { k \in DOMAIN value :
                          \E j \in DOMAIN value : j # k /\ value[j].id = value[k].id } }
        dupNames == { value[i].name : i \in { k \in DOMAIN value :
                          \E j \in DOMAIN value : j # k /\ value[j].name = value[k].name } }
        HasField(f) == f \in DOMAIN r
    IN  /\ (r = NoError) <=> (~SharesId(value) /\ ~SharesName(value))
        /\ HasField("dups_ids") <=> SharesId(value)
        /\ HasField("dups_names") <=> SharesName(value)
        /\ SharesId(value) =>
              /\ DOMAIN r.dups_ids = dupIds
              /\ \A k \in dupIds :
                    r.dups_ids[k] =
                      Pick([ i \in DOMAIN value |-> <<value[i].id, value[i].name>> ],
                           { i \in DOMAIN value : value[i].id = k }, 1)
        /\ SharesName(value) =>
              /\ DOMAIN r.dups_names = dupNames
              /\ \A k \in dupNames :
                    r.dups_names[k] =
                      Pick([ i \in DOMAIN value |-> <<value[i].id, value[i].name>> ],
                           { i \in DOMAIN value : value[i].name = k }, 1)

\* the violations carried for the field loc
ErrorsAt(loc) == { errors[i].err : i \in { k \in DOMAIN errors : errors[k].loc = loc } }

(* C4: for the node list and for the edge list, the uniqueness check fails  *)
(* iff two entries share an id or two share a name; its report lists, per   *)
(* duplicated id and per duplicated name, all (id, name) entries sharing    *)
(* it, and names both dimensions in one report when both are duplicated.    *)
C4_UniquenessReport ==
    /\ UniqueReportRight(nodes, _validate_id_and_name_unique(nodes))
    /\ UniqueReportRight(edges, _validate_id_and_name_unique(edges))
    /\ pc # "fields" =>
          /\ (SharesId(nodes) \/ SharesName(nodes)) <=> ErrorsAt("nodes") # {}
          /\ \A r \in ErrorsAt("nodes") : UniqueReportRight(nodes, r)
          /\ (SharesId(edges) \/ SharesName(edges)) =>
                /\ ErrorsAt("edges") # {}
                /\ \A r \in ErrorsAt("edges") : UniqueReportRight(edges, r)

\* a failure whose node report names a duplicated id and a duplicated name
C4_Witness ==
    /\ Failed
    /\ \E r \in ErrorsAt("nodes") :
          r.kind = "Duplicated ids and names" /\ DOMAIN r.dups_ids # {} /\ DOMAIN r.dups_names # {}

\* what the edge-pair check must report for the list es
PairReportRight(es, r) ==
    /\ (r = NoError) <=>
          /\ ~\E i, j \in DOMAIN es : i # j /\ PairOf(es[i]) = PairOf(es[j])
          /\ ~\E i, j \in DOMAIN es : PairOf(es[i]) = ReverseOf(es[j])
    /\ r # NoError =>
          /\ r.duplicate_same_direction =
                Pick([ i \in DOMAIN es |-> <<es[i].id, es[i].name>> ], RepeatPositions(es), 1)
          /\ r.bidirectional_edges =
                Pick([ i \in DOMAIN es |-> <<es[i].id, es[i].name>> ], ReversePositions(es), 1)

(* C5: on edges with upstream # downstream, the edge-pair check fails iff   *)
(* two edges share a pair or an edge's reverse pair is present; it reports  *)
(* as duplicates exactly the edges repeating the pair of an earlier edge,   *)
(* as bidirectional exactly those whose reverse belongs to an earlier edge, *)
(* both lists in one report.                                                *)
C5_EdgePairReport ==
    (\A i \in DOMAIN edges : edges[i].upstream_node_id # edges[i].downstream_node_id) =>
      /\ PairReportRight(edges, _validate_no_duped_edges(edges))
      /\ (pc # "fields" /\ ~SharesId(edges) /\ ~SharesName(edges)) =>
            /\ (RepeatPositions(edges) # {} \/ ReversePositions(edges) # {})
                  <=> ErrorsAt("edges") # {}
            /\ \A r \in ErrorsAt("edges") : PairReportRight(edges, r)

\* a failure whose edge report lists a same-direction duplicate and a bidirectional edge
C5_Witness ==
    /\ Failed
    /\ \E r \in ErrorsAt("edges") :
          /\ r.kind = "Duplicate or bidirectional edges"
          /\ r.duplicate_same_direction # << >>
          /\ r.bidirectional_edges # << >>

----------------------------------------------------------------------------
\* (id, name, x) of the entries of s at the positions in I, order kept
Triples(s, I, x(_)) == Pick([ i \in DOMAIN s |-> <<s[i].id, s[i].name, x(s[i])>> ], I, 1)

(* C6: every edge endpoint of a constructed Graph is the id of one of its   *)
(* nodes; when the field checks pass and all method keys resolve, an edge   *)
(* endpoint that is no node id makes construction fail, the failure listing *)
(* the edges with an invalid upstream id and those with an invalid          *)
(* downstream id together.                                                  *)
C6_EdgeEndpoints ==
    /\ Succeeded => EndpointsValid
    /\ (Finished /\ FieldChecksPass /\ PullKeysResolve /\ AggKeysResolve /\ ~EndpointsValid) =>
          /\ Failed
          /\ errors = << [loc |-> "model",
                          err |-> [kind |-> "invalid node ids",
                                   upstream |-> Triples(edges, BadUpEndPositions(nodes, edges),
                                                        LAMBDA e : e.upstream_node_id),
                                   downstream |-> Triples(edges, BadDownEndPositions(nodes, edges),
                                                          LAMBDA e : e.downstream_node_id)]] >>

\* a failure for an edge whose downstream id alone is no node id
C6_Witness ==
    /\ Failed /\ ModelErrorKind = "invalid node ids"
    /\ errors[1].err.upstream = << >> /\ errors[1].err.downstream # << >>

(* C7: every pull-method key of a constructed Graph's edges is a key of     *)
(* pull_methods; when the field checks pass, an edge key absent from        *)
(* pull_methods makes construction fail, the failure listing the edges with *)
(* a missing upstream key and those with a missing downstream key together. *)
C7_PullMethodKeys ==
    /\ Succeeded => PullKeysResolve
    /\ (Finished /\ FieldChecksPass /\ ~PullKeysResolve) =>
          /\ Failed
          /\ errors = << [loc |-> "model",
                          err |-> [kind |-> "missing pull method keys",
                                   upstream |-> Triples(edges, BadUpKeyPositions(edges, pull_methods),
                                                        LAMBDA e : e.upstream_method_key),
                                   downstream |-> Triples(edges, BadDownKeyPositions(edges, pull_methods),
                                                          LAMBDA e : e.downstream_method_key)]] >>

\* a failure for an edge whose downstream key alone is missing
C7_Witness ==
    /\ Failed /\ ModelErrorKind = "missing pull method keys"
    /\ errors[1].err.upstream = << >> /\ errors[1].err.downstream # << >>

(* C8: every aggregation key of a constructed Graph's nodes is a key of     *)
(* agg_methods; when the field checks and the pull-key check pass, a node   *)
(* key absent from agg_methods makes construction fail, the failure listing *)
(* the nodes with a missing downstream key and those with a missing         *)
(* upstream key together.                                                   *)
C8_AggMethodKeys ==
    /\ Succeeded => AggKeysResolve
    /\ (Finished /\ FieldChecksPass /\ PullKeysResolve /\ ~AggKeysResolve) =>
          /\ Failed
          /\ errors = << [loc |-> "model",
                          err |-> [kind |-> "missing aggregation keys",
                                   downstream |-> Triples(nodes, BadDownAggPositions(nodes, agg_methods),
                                                          LAMBDA n : n.pull_from_downstream_agg_key),
                                   upstream |-> Triples(nodes, BadUpAggPositions(nodes, agg_methods),
                                                        LAMBDA n : n.pull_from_upstream_agg_key)]] >>

\* a failure for a node whose upstream aggregation key alone is missing
C8_Witness ==
    /\ Failed /\ ModelErrorKind = "missing aggregation keys"
    /\ errors[1].err.downstream = << >> /\ errors[1].err.upstream # << >>

\* (id, name) of the nodes that are the endpoint of no edge, in node-list order
Orphans ==
    Pick([ i \in DOMAIN nodes |-> <<nodes[i].id, nodes[i].name>> ],
         { i \in DOMAIN nodes :
             \A j \in DOMAIN edges : /\ edges[j].upstream_node_id # nodes[i].id
                                     /\ edges[j].downstream_node_id # nodes[i].id },
         1)

(* C9: a construction that passes all fatal checks succeeds having emitted  *)
(* an orphan warning iff some node is the endpoint of no edge: exactly one  *)
(* warning, naming exactly those nodes in node-list order.  The orphan      *)
(* stage itself never fails the construction.                               *)
C9_OrphanWarning ==
    /\ Succeeded => warnings = (IF Orphans # << >> THEN << Orphans >> ELSE << >>)
    /\ pc = "acyclic" => (errors = << >>
                          /\ warnings = (IF Orphans # << >> THEN << Orphans >> ELSE << >>))

\* a Graph with edges was returned with one warning naming its orphan node
C9_Witness ==
    /\ Succeeded /\ edges # << >> /\ Len(warnings) = 1 /\ Len(warnings[1]) = 1
    /\ Len(nodes) >= 3

(* C10: no construction attempt emits an orphan warning and then fails.     *)
C10_WarningOnlyWithGraph ==
    Failed => warnings = << >>

\* the case the claim singles out: an orphan warning was emitted and the
\* construction then failed on a real directed cycle among the other nodes
C10_WarningThenRealCycle ==
    Failed /\ CycleError /\ HasCycle(edges) /\ warnings # << >> /\ depth = MaxDepth

----------------------------------------------------------------------------
(* Vocabulary of the derived indices of a constructed Graph *)

StrictlyAscending(s) == \A i, j \in DOMAIN s : i < j => s[i] < s[j]

\* the ids from which n is reachable, and those reachable from n, along a
\* directed path of at least one edge, given the path pairs P
AncestorsIn(P, n)   == { p[1] : p \in { q \in P : q[2] = n } }
DescendantsIn(P, n) == { p[2] : p \in { q \in P : q[1] = n } }

\* the graph's own answers
ancestors(n)   == upstream_node_ids.value[n]
descendants(n) == downstream_node_ids.value[n]

(* C11: in a constructed Graph, upstream_node_ids[n] lists exactly the ids  *)
(* from which n is reachable along a directed path of >= 1 edge and         *)
(* downstream_node_ids[n] exactly the ids reachable from n; each list is    *)
(* strictly ascending, so without duplicates.                               *)
C11_AncestorsAndDescendants ==
    Succeeded =>
       /\ upstream_node_ids.cached /\ downstream_node_ids.cached
       /\ DOMAIN upstream_node_ids.value = IdsOf(nodes)
       /\ DOMAIN downstream_node_ids.value = IdsOf(nodes)
       /\ \A P \in { Paths(edges) } : \A n \in IdsOf(nodes) :
             /\ Range(ancestors(n)) = AncestorsIn(P, n)
             /\ Range(descendants(n)) = DescendantsIn(P, n)
             /\ StrictlyAscending(ancestors(n))
             /\ StrictlyAscending(descendants(n))

\* a Graph was returned in which a node has an ancestor that is not the
\* upstream end of one of its own edges, and a node has two descendants
C11_Witness ==
    /\ Succeeded
    /\ \E n \in IdsOf(nodes) : \E i \in DOMAIN ancestors(n) :
          \A j \in DOMAIN edges : PairOf(edges[j]) # <<ancestors(n)[i], n>>
    /\ \E n \in IdsOf(nodes) : Len(descendants(n)) >= 2

(* C12: in a constructed Graph the two indices are converses: a is listed   *)
(* among the ancestors of n exactly when n is listed among the descendants  *)
(* of a.                                                                    *)
C12_IndicesAreConverses ==
    Succeeded =>
       \A a, n \in IdsOf(nodes) :
          (a \in Range(ancestors(n))) <=> (n \in Range(descendants(a)))

\* a Graph was returned in which a node with two outgoing edges is an ancestor
C12_Witness ==
    /\ Succeeded
    /\ \E a, n, m \in IdsOf(nodes) :
          /\ n # m
          /\ \E i, j \in DOMAIN edges :
                PairOf(edges[i]) = <<a, n>> /\ PairOf(edges[j]) = <<a, m>>
          /\ a \in Range(ancestors(n)) /\ a \in Range(ancestors(m))

\* Occurrences(s, x): how often x occurs in the list s
Occurrences(s, x) == Cardinality({ i \in DOMAIN s : s[i] = x })

IsDownstreamEnd(id) == \E j \in DOMAIN edges : edges[j].downstream_node_id = id
IsUpstreamEnd(id)   == \E j \in DOMAIN edges : edges[j].upstream_node_id = id

(* C13: root_nodes of a constructed Graph holds, once each, exactly the     *)
(* nodes whose id is the downstream_node_id of no edge, and leaf_nodes      *)
(* exactly the nodes whose id is the upstream_node_id of no edge.           *)
C13_RootsAndLeaves ==
    /\ cached.root_nodes.cached =>
          \A roots \in { cached.root_nodes.value } :
             /\ \A i \in DOMAIN roots :
                   roots[i] \in Range(nodes) /\ ~IsDownstreamEnd(roots[i].id)
             /\ \A j \in DOMAIN nodes :
                   ~IsDownstreamEnd(nodes[j].id) => Occurrences(roots, nodes[j]) = 1
    /\ cached.leaf_nodes.cached =>
          \A leaves \in { cached.leaf_nodes.value } :
             /\ \A i \in DOMAIN leaves :
                   leaves[i] \in Range(nodes) /\ ~IsUpstreamEnd(leaves[i].id)
             /\ \A j \in DOMAIN nodes :
                   ~IsUpstreamEnd(nodes[j].id) => Occurrences(leaves, nodes[j]) = 1

\* both lists were read on a chain of three nodes: one root, one leaf and a
\* node that is neither
C13_Witness ==
    /\ cached.root_nodes.cached /\ cached.leaf_nodes.cached
    /\ Len(cached.root_nodes.value) = 1 /\ Len(cached.leaf_nodes.value) = 1
    /\ \E j \in DOMAIN nodes : IsDownstreamEnd(nodes[j].id) /\ IsUpstreamEnd(nodes[j].id)

\* the lists s rearranged
Reorderings(s) ==
    { [ i \in DOMAIN s |-> s[f[i]] ] :
        f \in { g \in [DOMAIN s -> DOMAIN s] : \A i, j \in DOMAIN s : g[i] = g[j] => i = j } }

(* C14: root_nodes and leaf_nodes do not depend on the order of the input   *)
(* lists: a Graph built from the same nodes and the same edges in any other *)
(* list order has the same root_nodes and the same leaf_nodes.              *)
C14_OrderIndependent ==
    (cached.root_nodes.cached /\ cached.leaf_nodes.cached) =>
       \A ns \in Reorderings(nodes), es \in Reorderings(edges) :
          /\ root_nodes(ns, es, node_ids(ns)) = cached.root_nodes.value
          /\ leaf_nodes(ns, es, node_ids(ns)) = cached.leaf_nodes.value

(* C15: node_ids and edge_ids of a constructed Graph are strictly ascending *)
(* and hold every node id, resp. edge id, exactly once, whatever the order  *)
(* of the lists supplied.                                                   *)
C15_IdsAscending ==
    /\ cached.node_ids.cached =>
          \A v \in { cached.node_ids.value } :
             /\ StrictlyAscending(v)
             /\ \A j \in DOMAIN nodes : Occurrences(v, nodes[j].id) = 1
             /\ Range(v) = IdsOf(nodes)
    /\ cached.edge_ids.cached =>
          \A v \in { cached.edge_ids.value } :
             /\ StrictlyAscending(v)
             /\ \A j \in DOMAIN edges : Occurrences(v, edges[j].id) = 1
             /\ Range(v) = IdsOf(edges)

\* both id lists were read on a Graph given its nodes and its edges in
\* descending order of id
C15_Witness ==
    /\ cached.node_ids.cached /\ cached.edge_ids.cached
    /\ Len(nodes) >= 3 /\ Len(edges) >= 2
    /\ nodes[1].id > nodes[2].id /\ edges[1].id > edges[2].id

(* C16: nodes_as_dict of a constructed Graph has exactly the node ids as    *)
(* keys and maps each id to the node carrying it; edges_as_dict likewise    *)
(* for the edges; no node and no edge is lost or shadowed.                  *)
C16_DictsComplete ==
    /\ (Succeeded /\ cached.nodes_as_dict.cached) =>
          \A d \in { cached.nodes_as_dict.value } :
             /\ DOMAIN d = IdsOf(nodes)
             /\ \A j \in DOMAIN nodes : d[nodes[j].id] = nodes[j]
    /\ cached.edges_as_dict.cached =>
          \A d \in { cached.edges_as_dict.value } :
             /\ DOMAIN d = IdsOf(edges)
             /\ \A j \in DOMAIN edges : d[edges[j].id] = edges[j]

\* both dicts were read on a Graph of three nodes and two edges that leave
\* the same node
C16_Witness ==
    /\ cached.nodes_as_dict.cached /\ cached.edges_as_dict.cached
    /\ Len(nodes) >= 3 /\ Len(edges) >= 2
    /\ edges[1].upstream_node_id = edges[2].upstream_node_id
    /\ Succeeded

(* C17: the construction of an Edge from well-typed data fails exactly     *)
(* when upstream_node_id equals downstream_node_id, with the error naming   *)
(* the edge, whatever its other fields are; otherwise the Edge is returned. *)
C17_EdgeFailsIffSelfLoop ==
    /\ Failed <=> (pc # "edge" /\ edge_fields.upstream_node_id = edge_fields.downstream_node_id)
    /\ Succeeded <=> (pc # "edge" /\ edge_fields.upstream_node_id # edge_fields.downstream_node_id)
    /\ Failed => errors = ModelError([kind |-> "cyclical dependency",
                                      edge |-> <<edge_fields.id, edge_fields.name>>])
    /\ ~Failed => errors = << >>

\* an Edge whose two ends are node 1 was rejected although its own id differs
C17_Witness ==
    /\ Failed
    /\ edge_fields.upstream_node_id = 1 /\ edge_fields.downstream_node_id = 1
    /\ edge_fields.id = 0

----------------------------------------------------------------------------
(* Vocabulary of the WorkUnit properties *)

ProbabilityInRange ==
    0 <= work_unit.probability_of_success /\ work_unit.probability_of_success <= 100
ValuesOrdered == work_unit.success_value >= work_unit.unconditional_value

(* C18: the construction of a WorkUnit from well-typed data succeeds        *)
(* exactly when 0 <= probability_of_success <= 100 and success_value >=     *)
(* unconditional_value.  A probability below 0 or above 100 fails with the  *)
(* range error of its bound; with the probability in range, a success_value *)
(* below unconditional_value fails with the value-ordering error.           *)
C18_WorkUnitConstruction ==
    /\ Succeeded => (ProbabilityInRange /\ ValuesOrdered /\ errors = << >>)
    /\ Failed =>
          /\ ~(ProbabilityInRange /\ ValuesOrdered)
          /\ work_unit.probability_of_success < 0 =>
                errors = << [loc |-> "probability_of_success",
                             err |-> [kind |-> "Input should be greater than or equal to 0"]] >>
          /\ work_unit.probability_of_success > 100 =>
                errors = << [loc |-> "probability_of_success",
                             err |-> [kind |-> "Input should be less than or equal to 100"]] >>
          /\ ProbabilityInRange =>
                errors = ModelError(
                    [kind |-> "success_value must be greater than unconditional_value."])

\* a WorkUnit with probability 100 and equal values was returned
C18_Witness ==
    /\ Succeeded
    /\ work_unit.probability_of_success = 100
    /\ work_unit.success_value = work_unit.unconditional_value

\* risk_weighted_value has been read
ValueRead == risk_weighted_value # None

\* 100 * (unconditional_value + (success_value - unconditional_value) * p / 100)
HundredfoldExact ==
    100 * work_unit.unconditional_value
    + (work_unit.success_value - work_unit.unconditional_value)
      * work_unit.probability_of_success

\* 100 * |the float x| and |n|, both scaled by the same power of two that makes
\* them whole numbers
ScaleOf(x) == IF x.exponent < 0 THEN -x.exponent ELSE 0
HundredfoldOf(x) == ShiftLeft(Times(x.significand, 100), x.exponent + ScaleOf(x))
ScaledInt(n, x) == ShiftLeft(Digits(Abs(n)), ScaleOf(x))

\* 100 * x = n, in exact arithmetic
HundredfoldIs(x, n) ==
    /\ HundredfoldOf(x) = ScaledInt(n, x)
    /\ n # 0 => (x.negative <=> n < 0)

\* |100 * x - n|, scaled as above
HundredfoldGap(x, n) ==
    LET a == HundredfoldOf(x)
        b == ScaledInt(n, x)
    IN  IF a # << >> /\ b # << >> /\ (x.negative <=> n >= 0) THEN Plus(a, b)
        ELSE IF AtMost(a, b) THEN Minus(b, a)
        ELSE Minus(a, b)

C19_InexactRead ==
    ValueRead /\ ~HundredfoldIs(risk_weighted_value, HundredfoldExact)

----------------------------------------------------------------------------
(* C20: the outcome of a Graph construction is a function of the input      *)
(* alone: a second attempt on the same nodes, edges and registries ends as  *)
(* the first did, with a Graph or with the same violations, however many    *)
(* stack frames each attempt found free.                                    *)
C20_SameOutcomeOnRetry ==
    (Finished /\ previous # None) => Outcome = previous

\* the case at hand: an acyclic input was accepted once and then rejected
C20_AcceptedThenRejected ==
    Failed /\ previous # None /\ previous.status = "done" /\ ~HasCycle(edges)

----------------------------------------------------------------------------
(* C21: the acyclicity check is a bounded traversal: on every input that    *)
(* reaches it, cyclic or not, no path it follows holds more nodes than the  *)
(* graph has; a cycle is detected on meeting a node that is already on the  *)
(* path, not by running out of stack.                                       *)
C21_BoundedTraversal ==
    depth >= 0 => acyclic_nesting(nodes, edges, depth) <= Len(nodes)

\* the case at hand: on a cycle of three nodes the traversal went on until the
\* four free frames were used up
C21_WentRoundTheCycle ==
    /\ Failed /\ CycleError /\ HasCycle(edges)
    /\ Len(nodes) = 3 /\ depth = 4
    /\ acyclic_nesting(nodes, edges, depth) = 4

----------------------------------------------------------------------------
\* some edge of es has its reverse in es
HasReversePair(es) == \E i, j \in DOMAIN es : PairOf(es[i]) = ReverseOf(es[j])

\* the failure carries the edge-pair violation and names a bidirectional edge
BidirectionalReported ==
    \E r \in ErrorsAt("edges") :
       r.kind = "Duplicate or bidirectional edges" /\ r.bidirectional_edges # << >>

TraversalNotStarted ==
    depth = -1 /\ upstream_node_ids = NotCached /\ downstream_node_ids = NotCached

C22_ReversePairUnderOneId ==
    /\ Failed /\ HasReversePair(edges) /\ SharesId(edges) /\ ~BidirectionalReported

----------------------------------------------------------------------------
\* the names of the indices kept in the variable cached
IndexNames == DOMAIN NothingCached

\* what a first read of index x of the constructed Graph returns
FirstRead(x) ==
    CASE x = "node_ids"      -> node_ids(nodes)
      [] x = "edge_ids"      -> edge_ids(edges)
      [] x = "nodes_as_dict" -> nodes_as_dict(nodes)
      [] x = "edges_as_dict" -> edges_as_dict(edges)
      [] x = "root_nodes"    -> root_nodes(nodes, edges, node_ids(nodes))
      [] x = "leaf_nodes"    -> leaf_nodes(nodes, edges, node_ids(nodes))

(* C23: after a successful construction every step, i.e. every read of a    *)
(* derived index in any order, leaves nodes, edges, global_variables,       *)
(* pull_methods and agg_methods unchanged, and an index that has been read  *)
(* keeps the value of its first read: a later read returns that value again.*)
C23_ReadsChangeNothing ==
    [][ pc = "done" =>
          /\ input' = input
          /\ pc' = "done"
          /\ caches' = caches
          /\ \A x \in IndexNames :
                /\ cached[x].cached => cached'[x] = cached[x]
                /\ cached'[x].cached => cached'[x].value = FirstRead(x) ]_vars

\* every index of a Graph with two edges, whose nodes were given out of
\* order, has been read
C23_Witness ==
    /\ pc = "done"
    /\ Len(nodes) = 3 /\ Len(edges) = 2
    /\ \A x \in IndexNames : cached[x].cached
    /\ upstream_node_ids.cached /\ downstream_node_ids.cached
    /\ nodes[1].id > nodes[2].id

----------------------------------------------------------------------------
\* |x| <= |y| for floats
MagnitudeAtMost(x, y) ==
    \/ x.significand = << >>
    \/ /\ y.significand # << >>
       /\ \/ x.exponent < y.exponent
          \/ x.exponent = y.exponent /\ AtMost(x.significand, y.significand)

\* x <= y for floats
FloatAtMost(x, y) ==
    IF x.negative /\ ~y.negative THEN TRUE
    ELSE IF ~x.negative /\ y.negative THEN FALSE
    ELSE IF x.negative THEN MagnitudeAtMost(y, x)
    ELSE MagnitudeAtMost(x, y)

\* the float equal to the int n (n has fewer than Precision binary digits)
FloatOfInt(n) == Float(n < 0, Digits(Abs(n)), 0)

\* the value read from the same work unit with one more percent of probability
ValueAtNextProbability ==
    compute_risk_weighted_value([work_unit EXCEPT !.probability_of_success = @ + 1])

----------------------------------------------------------------------------
\* the ids of the nodes in the list s
ListedIds(s) == { s[i].id : i \in DOMAIN s }

(* C25: in a constructed Graph with at least one node, root_nodes and       *)
(* leaf_nodes are not empty; a node has no ancestors iff it is in           *)
(* root_nodes and no descendants iff it is in leaf_nodes; and no node is    *)
(* among its own ancestors or descendants.                                  *)
C25_RootsLeavesAndReach ==
    Succeeded =>
       /\ \A n \in IdsOf(nodes) :
             n \notin Range(ancestors(n)) /\ n \notin Range(descendants(n))
       /\ cached.root_nodes.cached =>
             \A roots \in { ListedIds(cached.root_nodes.value) } :
                /\ nodes # << >> => roots # {}
                /\ \A n \in IdsOf(nodes) : ancestors(n) = << >> <=> n \in roots
       /\ cached.leaf_nodes.cached =>
             \A leaves \in { ListedIds(cached.leaf_nodes.value) } :
                /\ nodes # << >> => leaves # {}
                /\ \A n \in IdsOf(nodes) : descendants(n) = << >> <=> n \in leaves

\* both lists were read on a Graph in which the ancestors of a node are its
\* parent and the root, and some node has both ancestors and descendants
C25_Witness ==
    /\ Succeeded
    /\ cached.root_nodes.cached /\ cached.leaf_nodes.cached
    /\ \E n \in IdsOf(nodes) : Len(ancestors(n)) = 2
    /\ \E n \in IdsOf(nodes) : ancestors(n) # << >> /\ descendants(n) # << >>
    /\ ListedIds(cached.root_nodes.value) # ListedIds(cached.leaf_nodes.value)

----------------------------------------------------------------------------
\* the stages in the order in which they run
StageOrder == << "fields", "pull_method_keys", "agg_method_keys", "edge_node_ids",
                "orphaned_nodes", "acyclic" >>

StageNumber(p) == CHOOSE i \in DOMAIN StageOrder : StageOrder[i] = p

\* what holds of the input when the construction stands at stage p
PassedBefore(p) ==
    /\ p # "fields" => FieldChecksPass
    /\ p \notin {"fields", "pull_method_keys"} => PullKeysResolve
    /\ p \in {"edge_node_ids", "orphaned_nodes", "acyclic"} => AggKeysResolve
    /\ p \in {"orphaned_nodes", "acyclic"} => EndpointsValid

\* the traversal of the acyclicity stage has been started
TraversalStarted == depth >= 0 \/ upstream_node_ids.cached \/ downstream_node_ids.cached

\* what holds once a step has been taken
StagesRespected ==
    /\ pc \in Range(StageOrder) =>
          PassedBefore(pc) /\ errors = << >> /\ ~TraversalStarted
    /\ pc \in Range(StageOrder) \ {"acyclic"} => warnings = << >>
    /\ warnings # << >> => PassesChecks1to6
    /\ TraversalStarted => PassesChecks1to6
    /\ ModelErrorKind # "KeyError"
    /\ (Failed /\ ~FieldChecksPass) =>
          \A i \in DOMAIN errors : errors[i].loc \in {"nodes", "edges"}

(* C26: the stages run in the order fields, pull keys, aggregation keys,    *)
(* edge endpoints, orphans, acyclicity: every step leaves a stage either    *)
(* for the next one, all checks before it having passed, or for the         *)
(* failure, and after the last stage for the result; the stages after the   *)
(* field checks are entered only when both lists passed; the traversal is   *)
(* started only at the acyclicity stage, so after the edge endpoints were   *)
(* found valid, and never fails on a node id that is absent from the graph. *)
C26_StagesInOrder ==
    [][ /\ pc \in Range(StageOrder)
        /\ \/ pc' = "failed" /\ errors' # << >>
           \/ pc # "acyclic" /\ pc' = StageOrder[StageNumber(pc) + 1]
           \/ pc = "acyclic" /\ pc' = "done"
        /\ (pc # "acyclic" /\ pc' = "failed") =>
              (~PassedBefore(StageOrder[StageNumber(pc) + 1]) /\ ~TraversalStarted')
        /\ pc # "acyclic" => ~TraversalStarted'
        /\ pc = "acyclic" => TraversalStarted'
        /\ StagesRespected' ]_vars

\* the traversal has run on a Graph with edges after every endpoint was found
\* to be a node id, an orphan warning having been emitted on the way
C26_Witness ==
    /\ Succeeded /\ TraversalStarted
    /\ Len(edges) >= 2 /\ warnings # << >>
    /\ PassesChecks1to6

\* an input with a dangling endpoint has failed at the edge-endpoint stage
\* and the traversal was not started for it
C26_StoppedBeforeTraversal ==
    /\ Failed /\ ModelErrorKind = "invalid node ids" /\ ~TraversalStarted
    /\ edges # << >> /\ warnings = << >>

====
